---- MODULE Spec2Model ----
(***************************************************************************)
(* codemirror-json5: the JSON5 parse cache, the linter adapter and the     *)
(* cursor-path state field of src/index.ts, over a character-level model   *)
(* of the documents, of JSON5.parse and of the editor's line table.        *)
(*                                                                         *)
(* A document is a sequence of one-character strings.  Offsets are the     *)
(* editor's: 0-based, the character at index j (1-based) covers the        *)
(* offsets [j-1, j).                                                       *)
(***************************************************************************)
EXTENDS Integers, Sequences, FiniteSets, TLC

\* installed: whether the editor state holds the json5ParseCache field;
\* doc, cursor: the document and selection.main.to; cache, cursorPath: the
\* values of the two state fields; step: the operation that produced the
\* state; parses: the calls of JSON5.parse that operation made; lintOut:
\* the structural linter the lint pass was given and what the pass returned,
\* when the state is that of a lint pass; edited: whether a transaction has
\* changed the text since the state was created; inflight: the promises that
\* lint passes have handed to their callers, oldest first.
VARIABLES installed, doc, cursor, cache, cursorPath, step, parses, linter, lintOut,
          edited, inflight

vars == <<installed, doc, cursor, cache, cursorPath, step, parses, linter, lintOut,
          edited, inflight>>

(***************************************************************************)
(* Bounds of the model.                                                    *)
(***************************************************************************)
\* Documents longer than MaxLen are only loaded whole, never edited.
MaxLen == 2
\* Promises of structural linters followed at a time.
MaxInflight == 2

(***************************************************************************)
(* Characters.                                                             *)
(***************************************************************************)
NL == "\n"
DQ == "\""
WhiteSpace == {" ", NL}
NonZeroDigits == {"1", "2", "3"}
Digits == {"0"} \cup NonZeroDigits
IdStart == {"a", "b"}
IdContinue == IdStart \cup Digits
\* The characters typed or deleted one at a time.
EditChars == {"[", "]", "1", ",", NL}

DigitVal(c) == CASE c = "0" -> 0 [] c = "1" -> 1 [] c = "2" -> 2 [] c = "3" -> 3

\* The character at index j, "" past the end (JSON5's peek() returning
\* undefined).
Ch(d, j) == IF j >= 1 /\ j <= Len(d) THEN d[j] ELSE ""

Slice(d, from, to) == SubSeq(d, from + 1, to)

\* The one element of a singleton.  Only({e(x) : x \in {v}}) is e(v), with v
\* evaluated once: the form taken by "let x = v" where v is a parse.
Only(S) == CHOOSE x \in S : TRUE

(***************************************************************************)
(* Parsed values (what JSON5.parse returns) and syntax nodes, as records   *)
(* of one shape.                                                           *)
(***************************************************************************)
NumV(n) == [t |-> "num", n |-> n, s |-> <<>>, keys |-> <<>>, items |-> <<>>]
StrV(s) == [t |-> "str", n |-> 0, s |-> s, keys |-> <<>>, items |-> <<>>]
ArrV(items) == [t |-> "arr", n |-> 0, s |-> <<>>, keys |-> <<>>, items |-> items]
ObjV(keys, items) == [t |-> "obj", n |-> 0, s |-> <<>>, keys |-> keys, items |-> items]
NoValue == [t |-> "none", n |-> 0, s |-> <<>>, keys |-> <<>>, items |-> <<>>]

Node(type, from, to, kids) == [type |-> type, from |-> from, to |-> to, kids |-> kids]
NoNodeRec == Node("none", 0, 0, <<>>)

\* obj[key] = value: a repeated key keeps its place and takes the new value.
KeyIndex(keys, k) ==
  IF \E i \in 1..Len(keys) : keys[i] = k
  THEN CHOOSE i \in 1..Len(keys) : keys[i] = k
  ELSE 0

SetKey(o, k, v) ==
  LET i == KeyIndex(o.keys, k) IN
  IF i = 0 THEN ObjV(Append(o.keys, k), Append(o.items, v))
  ELSE ObjV(o.keys, [o.items EXCEPT ![i] = v])

(***************************************************************************)
(* JSON5.parse.  The lexer skips white space before every token; a         *)
(* character that the current parse state does not accept is read and      *)
(* reported (invalidChar(read())), and so is the end of input.  A failure  *)
(* records the index of the character read last: Len(d) + 1 for the end    *)
(* of input.                                                               *)
(***************************************************************************)
Ok(val, node, next) == [ok |-> TRUE, val |-> val, node |-> node, next |-> next, at |-> 0]
Fail(at) == [ok |-> FALSE, val |-> NoValue, node |-> NoNodeRec, next |-> 0, at |-> at]

RECURSIVE SkipWs(_, _)
SkipWs(d, i) == IF Ch(d, i) \in WhiteSpace THEN SkipWs(d, i + 1) ELSE i

\* decimalInteger: the digits from index i on, appended to the number n.
RECURSIVE LexDigits(_, _, _)
LexDigits(d, i, n) ==
  IF Ch(d, i) \in Digits THEN LexDigits(d, i + 1, 10 * n + DigitVal(d[i]))
  ELSE [n |-> n, next |-> i]

\* string: the index of the closing quote q from index i on, or the failure
\* at a line break or at the end of input.
RECURSIVE LexString(_, _, _)
LexString(d, i, q) ==
  LET c == Ch(d, i) IN
  IF c = q THEN [ok |-> TRUE, close |-> i]
  ELSE IF c = NL \/ c = "" THEN [ok |-> FALSE, close |-> i]
  ELSE LexString(d, i + 1, q)

\* identifierName: the index after the identifier that starts at index i.
RECURSIVE LexIdent(_, _)
LexIdent(d, i) == IF Ch(d, i) \in IdContinue THEN LexIdent(d, i + 1) ELSE i

RECURSIVE ParseValue(_, _)
RECURSIVE ParseArray(_, _, _, _, _)
RECURSIVE ParseObject(_, _, _, _, _)

\* lexStates.value and parseStates.start / beforePropertyValue / push.
ParseValue(d, i) ==
  LET j == SkipWs(d, i)
      c == Ch(d, j)
  IN
  IF c = "[" THEN ParseArray(d, j + 1, j, <<>>, <<>>)
  ELSE IF c = "{" THEN ParseObject(d, j + 1, j, ObjV(<<>>, <<>>), <<>>)
  ELSE IF c = "0" THEN Ok(NumV(0), Node("Number", j - 1, j, <<>>), j + 1)
  ELSE IF c \in NonZeroDigits THEN
    LET r == LexDigits(d, j, 0) IN
    Ok(NumV(r.n), Node("Number", j - 1, r.next - 1, <<>>), r.next)
  ELSE IF c = DQ \/ c = "'" THEN
    LET r == LexString(d, j + 1, c) IN
    IF r.ok
    THEN Ok(StrV(SubSeq(d, j + 1, r.close - 1)),
            Node("String", j - 1, r.close, <<>>), r.close + 1)
    ELSE Fail(r.close)
  ELSE Fail(j)

\* beforeArrayValue and afterArrayValue; open is the index of the "[".
ParseArray(d, i, open, items, kids) ==
  LET j == SkipWs(d, i) IN
  IF Ch(d, j) = "]"
  THEN Ok(ArrV(items), Node("Array", open - 1, j, kids), j + 1)
  ELSE
    LET r == ParseValue(d, j) IN
    IF ~r.ok THEN r
    ELSE
      LET k == SkipWs(d, r.next)
          items2 == Append(items, r.val)
          kids2 == Append(kids, r.node)
      IN
      IF Ch(d, k) = "," THEN ParseArray(d, k + 1, open, items2, kids2)
      ELSE IF Ch(d, k) = "]"
      THEN Ok(ArrV(items2), Node("Array", open - 1, k, kids2), k + 1)
      ELSE Fail(k)

\* beforePropertyName, afterPropertyName, beforePropertyValue and
\* afterPropertyValue; open is the index of the "{".
ParseObject(d, i, open, o, kids) ==
  LET j == SkipWs(d, i)
      c == Ch(d, j)
  IN
  IF c = "}" THEN Ok(o, Node("Object", open - 1, j, kids), j + 1)
  ELSE
    LET quoted == c = DQ \/ c = "'"
        str == LexString(d, j + 1, c)
        nameOk == IF quoted THEN str.ok ELSE c \in IdStart
        nameFail == IF quoted THEN str.close ELSE j
        nameEnd == IF quoted THEN str.close + 1 ELSE LexIdent(d, j + 1)
        key == IF quoted THEN SubSeq(d, j + 1, str.close - 1)
               ELSE SubSeq(d, j, nameEnd - 1)
    IN
    IF ~nameOk THEN Fail(nameFail)
    ELSE
      LET colon == SkipWs(d, nameEnd) IN
      IF Ch(d, colon) # ":" THEN Fail(colon)
      ELSE
        LET r == ParseValue(d, colon + 1) IN
        IF ~r.ok THEN r
        ELSE
          LET k == SkipWs(d, r.next)
              o2 == SetKey(o, key, r.val)
              prop == Node("Property", j - 1, r.next - 1,
                           <<Node("PropertyName", j - 1, nameEnd - 1, <<>>), r.node>>)
              kids2 == Append(kids, prop)
          IN
          IF Ch(d, k) = "," THEN ParseObject(d, k + 1, open, o2, kids2)
          ELSE IF Ch(d, k) = "}"
          THEN Ok(o2, Node("Object", open - 1, k, kids2), k + 1)
          ELSE Fail(k)

\* The whole text: one value, then only white space (parse state "end").
ParseText(d) ==
  Only({IF ~r.ok THEN r
        ELSE Only({IF k = Len(d) + 1 THEN r ELSE Fail(k) : k \in {SkipWs(d, r.next)}})
        : r \in {ParseValue(d, 1)}})

(***************************************************************************)
(* JSON5's position counters and the editor's line table.                  *)
(***************************************************************************)
\* read(), k times from the start of d: a line break starts a new line at
\* column 0, any other character and the end of input advance the column.
RECURSIVE ReadCount(_, _, _, _, _)
ReadCount(d, i, k, line, column) ==
  IF i > k THEN [line |-> line, column |-> column]
  ELSE IF Ch(d, i) = NL THEN ReadCount(d, i + 1, k, line + 1, 0)
  ELSE ReadCount(d, i + 1, k, line, column + 1)

NoMessage == [kind |-> "", ch |-> "", line |-> 0, column |-> 0]
NoErr ==
  [is |-> FALSE, hasPos |-> FALSE, message |-> NoMessage,
   lineNumber |-> 0, columnNumber |-> 0]

\* syntaxError() of invalidChar(read()) and invalidEOF(), the character at
\* index k being the one read last.
SyntaxError(d, k) ==
  LET at == ReadCount(d, 1, k, 1, 0) IN
  [is |-> TRUE, hasPos |-> TRUE,
   message |-> [kind |-> IF k > Len(d) THEN "invalid end of input"
                         ELSE "invalid character",
                ch |-> Ch(d, k), line |-> at.line, column |-> at.column],
   lineNumber |-> at.line, columnNumber |-> at.column]

\* What a throwing structural linter throws: an Error with a message and
\* no position.
CallbackError ==
  [is |-> TRUE, hasPos |-> FALSE,
   message |-> [kind |-> "linter failed", ch |-> "", line |-> 0, column |-> 0],
   lineNumber |-> 0, columnNumber |-> 0]

JSON5Parse(d) ==
  Only({IF r.ok THEN [ok |-> TRUE, value |-> r.val, err |-> NoErr]
        ELSE [ok |-> FALSE, value |-> NoValue, err |-> SyntaxError(d, r.at)]
        : r \in {ParseText(d)}})

\* Text.lines and Text.line(n).from: lines are separated by line breaks.
Lines(d) == 1 + Cardinality({i \in 1..Len(d) : d[i] = NL})

RECURSIVE LineFromAt(_, _, _)
LineFromAt(d, n, i) ==
  IF n = 1 THEN i - 1
  ELSE IF d[i] = NL THEN LineFromAt(d, n - 1, i + 1)
  ELSE LineFromAt(d, n, i + 1)

LineFrom(d, n) == LineFromAt(d, n, 1)

Min(a, b) == IF a <= b THEN a ELSE b

(***************************************************************************)
(* handleParseError and json5ParseLinter.                                  *)
(***************************************************************************)
Diagnostic(from, to, message, severity) ==
  [from |-> from, to |-> to, message |-> message, severity |-> severity]

\* What a lint pass gives back: a list of diagnostics ("list"), a promise
\* of one ("pending"), or an exception thrown to the caller ("throw");
\* calls are the values the structural linter was called with, parses the
\* number of calls of JSON5.parse.
Outcome(kind, diags, calls, parsed) ==
  [kind |-> kind, diags |-> diags, calls |-> calls, parses |-> parsed]
NoLint == Outcome("none", <<>>, <<>>, 0)

\* Variant: the column taken as 0-based and the position not clamped.
handleParseErrorUnclamped(d, e) ==
  IF e.hasPos /\ (e.lineNumber < 1 \/ e.lineNumber > Lines(d))
  THEN [threw |-> TRUE, diags |-> <<>>]
  ELSE
    LET pos == IF e.hasPos THEN LineFrom(d, e.lineNumber) + e.columnNumber ELSE 0
    IN [threw |-> FALSE, diags |-> <<Diagnostic(pos, pos, e.message, "error")>>]

\* Variant: the column taken as 0-based, the position clamped.
handleParseErrorZeroBased(d, e) ==
  IF e.hasPos /\ (e.lineNumber < 1 \/ e.lineNumber > Lines(d))
  THEN [threw |-> TRUE, diags |-> <<>>]
  ELSE
    LET pos == IF e.hasPos
               THEN Min(LineFrom(d, e.lineNumber) + e.columnNumber, Len(d))
               ELSE 0
    IN [threw |-> FALSE, diags |-> <<Diagnostic(pos, pos, e.message, "error")>>]

\* Text.line(n) throws a RangeError for a line the document does not have.
handleParseError(d, e) ==
  IF e.hasPos /\ (e.lineNumber < 1 \/ e.lineNumber > Lines(d))
  THEN [threw |-> TRUE, diags |-> <<>>]
  ELSE
    LET pos == IF e.hasPos
               THEN Min(LineFrom(d, e.lineNumber) + e.columnNumber - 1, Len(d))
               ELSE 0
    IN [threw |-> FALSE, diags |-> <<Diagnostic(pos, pos, e.message, "error")>>]

ErrorOutcome(d, e, calls, parsed) ==
  LET h == handleParseError(d, e) IN
  Outcome(IF h.threw THEN "throw" ELSE "list", h.diags, calls, parsed)

\* The structural linters a caller may supply: none, one that returns a
\* list, one that returns a promise of a list, one that throws.
StructuralDiagnostic ==
  Diagnostic(0, 0, [kind |-> "structural", ch |-> "", line |-> 0, column |-> 0],
             "warning")
NoLinter == [kind |-> "absent", result |-> <<>>]
StructureLinters ==
  { NoLinter,
    [kind |-> "list", result |-> <<>>],
    [kind |-> "list", result |-> <<StructuralDiagnostic>>],
    [kind |-> "pending", result |-> <<StructuralDiagnostic>>],
    [kind |-> "throw", result |-> <<>>] }

\* Variant: a promise of the structural linter is awaited and its list
\* returned.
CallLinterAwaits(structureLinter, parsed, parsedCount) ==
  IF structureLinter.kind = "absent" THEN Outcome("list", <<>>, <<>>, parsedCount)
  ELSE Outcome(IF structureLinter.kind = "pending" THEN "list" ELSE structureLinter.kind,
               structureLinter.result, <<parsed>>, parsedCount)

\* structureLinter?.(view, parsed) ?? []
CallLinter(structureLinter, parsed, parsedCount) ==
  IF structureLinter.kind = "absent" THEN Outcome("list", <<>>, <<>>, parsedCount)
  ELSE Outcome(structureLinter.kind, structureLinter.result, <<parsed>>, parsedCount)

Undefined == [def |-> FALSE, v |-> NoValue]
Defined(v) == [def |-> TRUE, v |-> v]
\* The field's value null, and also the field not being installed.
NoCache == [present |-> FALSE, err |-> NoErr, obj |-> Undefined]
CacheOf(err, obj) == [present |-> TRUE, err |-> err, obj |-> obj]

\* The try block of the lint pass, p being what JSON5.parse(doc.toString())
\* gave: an exception of the parser or of the structural linter is caught.
ParseAndLint(d, p, structureLinter) ==
  IF p.ok THEN
    LET r == CallLinter(structureLinter, p.value, 1) IN
    IF r.kind = "throw" THEN ErrorOutcome(d, CallbackError, r.calls, 1)
    ELSE r
  ELSE ErrorOutcome(d, p.err, <<>>, 1)

\* Variant: the cached value is looked at before the cached error.
json5ParseLinterValueFirst(d, cached, structureLinter) ==
  IF cached.present /\ cached.obj.def
  THEN CallLinter(structureLinter, cached.obj.v, 0)
  ELSE IF cached.present /\ cached.err.is
  THEN ErrorOutcome(d, cached.err, <<>>, 0)
  ELSE Only({ParseAndLint(d, p, structureLinter) : p \in {JSON5Parse(d)}})

\* Variant: a promise of the structural linter is awaited when the value
\* comes from the cache.
json5ParseLinterAwaitsCached(d, cached, structureLinter) ==
  IF cached.present /\ cached.err.is
  THEN ErrorOutcome(d, cached.err, <<>>, 0)
  ELSE IF cached.present /\ cached.obj.def
  THEN CallLinterAwaits(structureLinter, cached.obj.v, 0)
  ELSE Only({ParseAndLint(d, p, structureLinter) : p \in {JSON5Parse(d)}})

json5ParseLinter(d, cached, structureLinter) ==
  IF cached.present /\ cached.err.is
  THEN ErrorOutcome(d, cached.err, <<>>, 0)
  ELSE IF cached.present /\ cached.obj.def
  THEN CallLinter(structureLinter, cached.obj.v, 0)
  ELSE Only({ParseAndLint(d, p, structureLinter) : p \in {JSON5Parse(d)}})

(***************************************************************************)
(* json5ParseCache.                                                        *)
(***************************************************************************)
json5ParseCacheCreate == NoCache

\* Variant: every transaction parses, tx.docChanged is not looked at.
json5ParseCacheUpdateAlways(oldValue, docChanged, newDoc) ==
  Only({IF p.ok THEN [value |-> CacheOf(NoErr, Defined(p.value)), parses |-> 1]
        ELSE [value |-> CacheOf(p.err, oldValue.obj), parses |-> 1]
        : p \in {JSON5Parse(newDoc)}})

\* Variant: a failed parse drops the value of the last good parse.
json5ParseCacheUpdateDropsValue(oldValue, docChanged, newDoc) ==
  IF ~docChanged THEN [value |-> oldValue, parses |-> 0]
  ELSE
    Only({IF p.ok THEN [value |-> CacheOf(NoErr, Defined(p.value)), parses |-> 1]
          ELSE [value |-> CacheOf(p.err, Undefined), parses |-> 1]
          : p \in {JSON5Parse(newDoc)}})

\* Variant: a good parse keeps the value the cache already holds.
json5ParseCacheUpdateKeepsValue(oldValue, docChanged, newDoc) ==
  IF ~docChanged THEN [value |-> oldValue, parses |-> 0]
  ELSE
    Only({IF p.ok
          THEN [value |-> CacheOf(NoErr, IF oldValue.obj.def THEN oldValue.obj
                                         ELSE Defined(p.value)),
                parses |-> 1]
          ELSE [value |-> CacheOf(p.err, oldValue.obj), parses |-> 1]
          : p \in {JSON5Parse(newDoc)}})

\* Variant: a failed parse keeps the value only when the cache held no error.
json5ParseCacheUpdateKeepsOnce(oldValue, docChanged, newDoc) ==
  IF ~docChanged THEN [value |-> oldValue, parses |-> 0]
  ELSE
    Only({IF p.ok THEN [value |-> CacheOf(NoErr, Defined(p.value)), parses |-> 1]
          ELSE [value |-> CacheOf(p.err, IF oldValue.err.is THEN Undefined
                                         ELSE oldValue.obj),
                parses |-> 1]
          : p \in {JSON5Parse(newDoc)}})

\* Variant: a good parse replaces the value and keeps the error the cache
\* held ({...oldValue, obj: parsed}).
json5ParseCacheUpdateKeepsError(oldValue, docChanged, newDoc) ==
  IF ~docChanged THEN [value |-> oldValue, parses |-> 0]
  ELSE
    Only({IF p.ok THEN [value |-> CacheOf(oldValue.err, Defined(p.value)), parses |-> 1]
          ELSE [value |-> CacheOf(p.err, oldValue.obj), parses |-> 1]
          : p \in {JSON5Parse(newDoc)}})

\* update(oldValue, tx): the new value and the number of JSON5.parse calls.
json5ParseCacheUpdate(oldValue, docChanged, newDoc) ==
  IF ~docChanged THEN [value |-> oldValue, parses |-> 0]
  ELSE
    Only({IF p.ok THEN [value |-> CacheOf(NoErr, Defined(p.value)), parses |-> 1]
          ELSE [value |-> CacheOf(p.err, oldValue.obj), parses |-> 1]
          : p \in {JSON5Parse(newDoc)}})

(***************************************************************************)
(* The syntax tree and the cursor path (nodeAtCursor, getPathAtNode).      *)
(* A node is referred to by the child indices that lead to it from the     *)
(* root of the tree.                                                       *)
(***************************************************************************)
NoNode == [found |-> FALSE, ix |-> <<>>]
NodeRef(ix) == [found |-> TRUE, ix |-> ix]
NoPath == [has |-> FALSE, segs |-> <<>>]
PathOf(segs) == [has |-> TRUE, segs |-> segs]
KeySeg(name) == [k |-> "key", name |-> name, index |-> 0]
IndexSeg(i) == [k |-> "index", name |-> <<>>, index |-> i]

\* The tree of the grammar: the structure of the text when it is valid, no
\* structural node otherwise.
SyntaxTree(d) ==
  Only({IF r.ok THEN [has |-> TRUE, root |-> r.node]
        ELSE [has |-> FALSE, root |-> NoNodeRec]
        : r \in {ParseText(d)}})

Covers(n, pos) == n.from <= pos /\ pos <= n.to

RECURSIVE Descend(_, _, _)
Descend(n, pos, ix) ==
  IF \E i \in 1..Len(n.kids) : Covers(n.kids[i], pos)
  THEN LET i == CHOOSE i \in 1..Len(n.kids) : Covers(n.kids[i], pos)
       IN Descend(n.kids[i], pos, Append(ix, i))
  ELSE ix

\* The innermost node whose range holds the offset.
nodeAtCursor(d, pos) ==
  Only({IF tree.has /\ Covers(tree.root, pos)
        THEN NodeRef(Descend(tree.root, pos, <<>>))
        ELSE NoNode
        : tree \in {SyntaxTree(d)}})

RECURSIVE NodeAt(_, _)
NodeAt(n, ix) == IF ix = <<>> THEN n ELSE NodeAt(n.kids[Head(ix)], Tail(ix))

\* The text of a property name without its quotes.
DecodeName(text) ==
  IF Len(text) >= 2 /\ (text[1] = DQ \/ text[1] = "'")
  THEN SubSeq(text, 2, Len(text) - 1)
  ELSE text

RECURSIVE Reverse(_)
Reverse(s) == IF s = <<>> THEN <<>> ELSE Append(Reverse(Tail(s)), Head(s))

\* From the node up to the root: an Array parent gives the child's index, an
\* Object parent the name of the Property that is the child.
RECURSIVE WalkUp(_, _, _, _)
WalkUp(d, root, ix, segs) ==
  IF ix = <<>> THEN segs
  ELSE
    LET up == SubSeq(ix, 1, Len(ix) - 1)
        parent == NodeAt(root, up)
        i == ix[Len(ix)]
        child == parent.kids[i]
    IN
    IF parent.type = "Array" THEN WalkUp(d, root, up, Append(segs, IndexSeg(i - 1)))
    ELSE IF parent.type = "Object"
    THEN WalkUp(d, root, up,
                Append(segs, KeySeg(DecodeName(Slice(d, child.kids[1].from,
                                                     child.kids[1].to)))))
    ELSE WalkUp(d, root, up, segs)

getPathAtNode(d, ref) ==
  Only({PathOf(Reverse(WalkUp(d, tree.root, ref.ix, <<>>))) : tree \in {SyntaxTree(d)}})

\* Variant: the field starts with the empty path.
jsonCursorPathCreateEmptyPath == [path |-> PathOf(<<>>), node |-> NoNode]

jsonCursorPathCreate == [path |-> NoPath, node |-> NoNode]

\* The field's value for the node at the cursor.
PathAndNode(d, currentNode) ==
  [path |-> IF currentNode.found THEN getPathAtNode(d, currentNode) ELSE NoPath,
   node |-> currentNode]

\* Variant: the field is recomputed only when the text changed.
jsonCursorPathUpdateGated(oldValue, docChanged, newDoc, cursorPos) ==
  IF ~docChanged THEN oldValue
  ELSE Only({PathAndNode(newDoc, n) : n \in {nodeAtCursor(newDoc, cursorPos)}})

\* Variant: the path is that of the node under offset 0, not under the
\* cursor.
jsonCursorPathUpdateStalePath(oldValue, docChanged, newDoc, cursorPos) ==
  Only({[path |-> IF n.found THEN PathAndNode(newDoc, nodeAtCursor(newDoc, 0)).path
                  ELSE NoPath,
         node |-> n]
        : n \in {nodeAtCursor(newDoc, cursorPos)}})

\* Variant: without a node the path is the empty list, not null.
jsonCursorPathUpdateEmptyPath(oldValue, docChanged, newDoc, cursorPos) ==
  Only({[path |-> IF n.found THEN getPathAtNode(newDoc, n) ELSE PathOf(<<>>),
         node |-> n]
        : n \in {nodeAtCursor(newDoc, cursorPos)}})

\* update(oldValue, tx), with tx.state's document and selection.main.to.
jsonCursorPathUpdate(oldValue, docChanged, newDoc, cursorPos) ==
  Only({PathAndNode(newDoc, currentNode)
        : currentNode \in {nodeAtCursor(newDoc, cursorPos)}})

(***************************************************************************)
(* The editor: a state created on a document, transactions, lint passes.   *)
(***************************************************************************)
ExampleObject ==
  <<"{", DQ, "a", DQ, ":", "[", "1", ",", "2", ",", "{", DQ, "b", DQ, ":", "3",
    "}", "]", "}">>
ExampleArray == <<"[", "1", "0", ",", "2", "0", ",", "3", "0", "]">>
RepeatedKey == <<"{", "a", ":", "1", ",", "a", ":", "2", "}">>
Unterminated == <<"{">>
BrokenThirdLine == <<"[", NL, "1", NL, "1", "]">>
BrokenString == <<"[", NL, "'", "b", NL>>
QuotedLines == <<"[", NL, " ", "'", "b", "'", "]">>

SampleDocs ==
  {ExampleObject, ExampleArray, RepeatedKey, Unterminated, BrokenThirdLine,
   BrokenString, QuotedLines}

Init ==
  /\ installed \in BOOLEAN
  /\ doc \in {<<>>} \cup SampleDocs
  /\ cursor = 0
  /\ cache = json5ParseCacheCreate
  /\ cursorPath = jsonCursorPathCreate
  /\ step = "create"
  /\ parses = 0
  /\ linter = NoLinter
  /\ lintOut = NoLint
  /\ edited = FALSE
  /\ inflight = <<>>

\* One transaction: every installed field is updated on the new state.
Transaction(newDoc, newCursor, docChanged) ==
  \E updated \in {json5ParseCacheUpdate(cache, docChanged, newDoc)} :
  /\ doc' = newDoc
  /\ cursor' = newCursor
  /\ cache' = IF installed THEN updated.value ELSE cache
  /\ parses' = IF installed THEN updated.parses ELSE 0
  /\ cursorPath' = jsonCursorPathUpdate(cursorPath, docChanged, newDoc, newCursor)
  /\ step' = IF docChanged THEN "edit" ELSE "select"
  /\ linter' = NoLinter
  /\ lintOut' = NoLint
  /\ edited' = (edited \/ docChanged)
  /\ UNCHANGED <<installed, inflight>>

InsertAt(d, p, c) == SubSeq(d, 1, p) \o <<c>> \o SubSeq(d, p + 1, Len(d))
DeleteAt(d, p) == SubSeq(d, 1, p - 1) \o SubSeq(d, p + 1, Len(d))

InsertChar ==
  /\ Len(doc) < MaxLen
  /\ \E p \in 0..Len(doc), c \in EditChars :
       \E newDoc \in {InsertAt(doc, p, c)} : Transaction(newDoc, p + 1, TRUE)

DeleteChar ==
  /\ Len(doc) <= MaxLen
  /\ \E p \in 1..Len(doc) :
       \E newDoc \in {DeleteAt(doc, p)} : Transaction(newDoc, p - 1, TRUE)

LoadDoc ==
  \E d \in SampleDocs :
    /\ d # doc
    /\ \E newCursor \in {Min(cursor, Len(d))} : Transaction(d, newCursor, TRUE)

\* A transaction that leaves the text alone: the selection moves, or not.
MoveCursor ==
  \E p \in 0..Len(doc) : Transaction(doc, p, FALSE)

\* One lint pass: the lint source is called on the view and returns out.
Lint(structureLinter, out) ==
  /\ linter' = structureLinter
  /\ lintOut' = out
  /\ parses' = out.parses
  /\ step' = "lint"
  /\ UNCHANGED <<installed, doc, cursor, cache, cursorPath, edited>>

\* A lint pass; a promise it returns is not followed any further.
LintPass ==
  \E structureLinter \in StructureLinters :
    \E out \in {json5ParseLinter(doc, cache, structureLinter)} :
      Lint(structureLinter, out) /\ UNCHANGED inflight

Next == InsertChar \/ DeleteChar \/ LoadDoc \/ MoveCursor \/ LintPass

Spec == Init /\ [][Next]_vars

(***************************************************************************)
(* Lint passes whose promises are followed until they settle.              *)
(***************************************************************************)
\* A promise a lint pass returned: the value its structural linter was
\* called with, the list it resolves to, and whether it has resolved.
Promise(out) == [calls |-> out.calls, diags |-> out.diags, settled |-> FALSE]

\* The promises in flight after a lint pass returned out: the lint source
\* returns the structural linter's promise as it is and keeps no reference
\* to it.
Returned(promises, out) ==
  IF out.kind = "pending" THEN Append(promises, Promise(out)) ELSE promises

AsyncLinters ==
  StructureLinters \cup {[kind |-> "pending", result |-> <<>>]}
AsyncDocs == {ExampleArray, RepeatedKey, Unterminated}

InitAsync == Init /\ doc \in AsyncDocs

\* A transaction that replaces the text.
ReplaceDoc ==
  \E d \in AsyncDocs : d # doc /\ Transaction(d, 0, TRUE)

LintAsync ==
  \E structureLinter \in AsyncLinters :
    \E out \in {json5ParseLinter(doc, cache, structureLinter)} :
      /\ out.kind = "pending" => Len(inflight) < MaxInflight
      /\ Lint(structureLinter, out)
      /\ inflight' = Returned(inflight, out)

\* The structural linter resolves one of its promises.
Settle ==
  \E i \in 1..Len(inflight) :
    /\ ~inflight[i].settled
    /\ inflight' = [inflight EXCEPT ![i].settled = TRUE]
    /\ step' = "settle"
    /\ UNCHANGED <<installed, doc, cursor, cache, cursorPath, parses, linter,
                   lintOut, edited>>

NextAsync == ReplaceDoc \/ LintAsync \/ Settle

SpecAsync == InitAsync /\ [][NextAsync]_vars

(***************************************************************************)
(* Properties.                                                             *)
(***************************************************************************)
IsTransaction == step \in {"edit", "select"}
Parsed == JSON5Parse(doc)

\* C1: a transaction that does not change the document text leaves the
\* parse cache as it was (empty, holding a value, or holding an error) and
\* makes no call of JSON5.parse.
C1_NoTextChangeKeepsCache ==
  [][step' = "select" => (cache' = cache /\ parses' = 0)]_vars

\* C1 witness: a selection-only transaction on a state whose cache holds an
\* error next to a value.
C1_Witness ==
  step = "select" /\ installed /\ cache.present /\ cache.err.is /\ cache.obj.def

\* C2 as stated: whenever the current text parses to V and the next
\* text-changing transaction gives a text that does not parse, the cache
\* then holds an error and the value V.
C2_Original ==
  [][(installed /\ Parsed.ok /\ step' = "edit" /\ ~JSON5Parse(doc').ok)
       => (cache'.err.is /\ cache'.obj = Defined(Parsed.value))]_vars

\* C2 amended: when the cache holds the value V of the current text and the
\* next text-changing transaction gives a text that does not parse, the
\* cache then holds an error and the value V; when the cache is still empty
\* (the text is the one the state was created with), it then holds an error
\* and no value.
C2_RetainsCachedValue ==
  [][(installed /\ Parsed.ok /\ step' = "edit" /\ ~JSON5Parse(doc').ok)
       => /\ cache'.present /\ cache'.err.is
          /\ cache.present => cache'.obj = Defined(Parsed.value)
          /\ ~cache.present => cache'.obj = Undefined]_vars

\* C2 witness: after a text-changing transaction the cache holds an error
\* and the value of an earlier text.
C2_Witness ==
  step = "edit" /\ installed /\ ~Parsed.ok /\ cache.err.is /\ cache.obj.def

\* C3: after a text-changing transaction whose new text parses, the cache is
\* exactly {err: null, obj: the value of the new text}.
C3_SuccessReplacesCache ==
  (installed /\ step = "edit" /\ Parsed.ok)
    => cache = CacheOf(NoErr, Defined(Parsed.value))

\* C3 witness: a text-changing transaction has produced a text that parses
\* to an array with an element.
C3_Witness ==
  /\ step = "edit" /\ installed /\ Parsed.ok
  /\ cache.obj.def /\ cache.obj.v.t = "arr" /\ cache.obj.v.items # <<>>

\* C4: a lint pass on a text that does not parse returns exactly one
\* diagnostic, of zero width, inside the document, of severity "error",
\* with the parser's message, and does not call the structural linter.
C4_OneDiagnosticOnError ==
  (step = "lint" /\ ~Parsed.ok)
    => /\ lintOut.kind = "list"
       /\ Len(lintOut.diags) = 1
       /\ lintOut.diags[1].from = lintOut.diags[1].to
       /\ lintOut.diags[1].from >= 0
       /\ lintOut.diags[1].from <= Len(doc)
       /\ lintOut.diags[1].severity = "error"
       /\ lintOut.diags[1].message = Parsed.err.message
       /\ lintOut.calls = <<>>

\* C4 witness: a lint pass, given a structural linter, on a text that does
\* not parse, the error being read from the cache.
C4_Witness ==
  /\ step = "lint" /\ ~Parsed.ok /\ cache.present /\ cache.obj.def
  /\ linter.kind = "list" /\ linter.result # <<>>

\* The offset at which line n starts: 0 for the first line, else the offset
\* after the (n-1)-th line break.
LineBreaksBefore(d, s) == Cardinality({i \in 1..s : d[i] = NL})
LineStartOffset(d, n) ==
  CHOOSE s \in 0..Len(d) :
    /\ LineBreaksBefore(d, s) = n - 1
    /\ s = 0 \/ d[s] = NL

\* C5: the diagnostic of a parse error at line L, column C is at offset
\* min(lineStartOffset(L) + C - 1, document length).
C5_ErrorOffset ==
  (step = "lint" /\ ~Parsed.ok)
    => /\ lintOut.diags # <<>>
       /\ lintOut.diags[1].from =
            Min(LineStartOffset(doc, Parsed.err.lineNumber)
                  + Parsed.err.columnNumber - 1, Len(doc))

\* C5 witness: an error reported one column past the end of the last line,
\* which is not the first, and mapped to the document length.
C5_Witness ==
  /\ step = "lint" /\ ~Parsed.ok
  /\ Parsed.err.message.kind = "invalid end of input"
  /\ Parsed.err.lineNumber > 1 /\ Parsed.err.columnNumber > 1
  /\ lintOut.diags # <<>> /\ lintOut.diags[1].from = Len(doc)

\* C6: a lint pass calls the structural linter at most once, only when the
\* current text parses, and with the value of the current text: never with
\* the value of an earlier text that the cache holds next to an error.
C6_LinterOnlyOnCurrentValue ==
  step = "lint"
    => /\ Len(lintOut.calls) <= 1
       /\ lintOut.calls # <<>> => (Parsed.ok /\ lintOut.calls[1] = Parsed.value)

\* C6 witness: a lint pass that called the structural linter with the value
\* read from the cache, without parsing.
C6_Witness ==
  /\ step = "lint" /\ cache.present /\ lintOut.calls # <<>>
  /\ lintOut.parses = 0 /\ linter.kind = "list"

\* C7: on a text that parses, the lint pass returns what the structural
\* linter returns, a list as a list and a promise as a promise, and the
\* empty list when no structural linter was given.
C7_ReturnsLinterResult ==
  (step = "lint" /\ Parsed.ok)
    => /\ linter.kind \in {"list", "pending"}
            => (lintOut.kind = linter.kind /\ lintOut.diags = linter.result)
       /\ linter.kind = "absent" => (lintOut.kind = "list" /\ lintOut.diags = <<>>)

\* C7 witness: a lint pass on a text that parses whose structural linter
\* returned a promise.
C7_Witness ==
  step = "lint" /\ Parsed.ok /\ linter.kind = "pending" /\ lintOut.kind = "pending"

\* C8: after every transaction the cursor path is the path of the node at
\* the selection's end offset in the tree of the transaction's new state.
C8_CursorPathFollowsState ==
  IsTransaction
    => LET n == nodeAtCursor(doc, cursor) IN
       /\ cursorPath.node = n
       /\ cursorPath.path = IF n.found THEN getPathAtNode(doc, n) ELSE NoPath

\* C8 witness: a selection-only transaction has put the cursor in a nested
\* value.
C8_Witness ==
  step = "select" /\ cursor > 0 /\ cursorPath.path.has /\ Len(cursorPath.path.segs) >= 2

\* C9 as stated: no exception leaves a cache update or a lint pass.
C9_NoExceptionEscapes == lintOut.kind # "throw"

\* The value reached from v along the segments: a name selects the member of
\* an object, an index the element of an array.
RECURSIVE Follow(_, _)
Follow(v, segs) ==
  IF segs = <<>> THEN Defined(v)
  ELSE
    LET seg == Head(segs) IN
    IF seg.k = "key" /\ v.t = "obj" /\ KeyIndex(v.keys, seg.name) # 0
    THEN Follow(v.items[KeyIndex(v.keys, seg.name)], Tail(segs))
    ELSE IF seg.k = "index" /\ v.t = "arr" /\ seg.index < Len(v.items)
    THEN Follow(v.items[seg.index + 1], Tail(segs))
    ELSE Undefined

ValueTypes == {"Object", "Array", "String", "Number"}
CursorNode == NodeAt(SyntaxTree(doc).root, cursorPath.node.ix)
InsideValue ==
  IsTransaction /\ Parsed.ok /\ cursorPath.node.found /\ CursorNode.type \in ValueTypes

\* The value of the text of the node under the cursor, parsed on its own.
ValueUnderCursor == JSON5Parse(Slice(doc, CursorNode.from, CursorNode.to))

PropertyNameOf(d, prop) == DecodeName(Slice(d, prop.kids[1].from, prop.kids[1].to))

\* No Object on the way from n down to the node at ix holds, after the
\* Property on the way, another Property of the same name.
RECURSIVE NoLaterSameName(_, _, _)
NoLaterSameName(d, n, ix) ==
  IF ix = <<>> THEN TRUE
  ELSE
    /\ n.type = "Object"
         => \A j \in (Head(ix) + 1)..Len(n.kids) :
              PropertyNameOf(d, n.kids[j]) # PropertyNameOf(d, n.kids[Head(ix)])
    /\ NoLaterSameName(d, n.kids[Head(ix)], Tail(ix))

ReachesValueUnderCursor ==
  /\ cursorPath.path.has
  /\ ValueUnderCursor.ok
  /\ Follow(Parsed.value, cursorPath.path.segs) = Defined(ValueUnderCursor.value)

\* C10 as stated: with the cursor inside a value of a valid document, the
\* path followed from the root of the parsed value reaches that value.
C10_Original == InsideValue => ReachesValueUnderCursor

\* C10 amended: the same, for a cursor none of whose enclosing Properties
\* is followed in its Object by a Property of the same name; and the two
\* documents of the specification give ["a", 2, "b"] inside the 3 and [1]
\* inside the 20.
C10_PathReachesValue ==
  /\ (InsideValue /\ NoLaterSameName(doc, SyntaxTree(doc).root, cursorPath.node.ix))
       => ReachesValueUnderCursor
  /\ (IsTransaction /\ doc = ExampleObject /\ cursor \in {15, 16})
       => cursorPath.path = PathOf(<<KeySeg(<<"a">>), IndexSeg(2), KeySeg(<<"b">>)>>)
  /\ (IsTransaction /\ doc = ExampleArray /\ cursor \in 4..6)
       => cursorPath.path = PathOf(<<IndexSeg(1)>>)

\* C10 witness: the cursor is inside the 3 of the first document and the
\* path has its three segments.
C10_Witness ==
  /\ IsTransaction /\ doc = ExampleObject /\ cursor = 16
  /\ InsideValue /\ Len(cursorPath.path.segs) = 3

\* C11: on the empty document the cursor path and its node are both null,
\* in the state as created and after any transaction that leaves the
\* document empty.
C11_EmptyDocumentNoPath ==
  (doc = <<>> /\ step \in {"create", "edit", "select"})
    => cursorPath = [path |-> NoPath, node |-> NoNode]

\* C11 witness: a text-changing transaction has emptied the document.
C11_Witness ==
  doc = <<>> /\ step = "edit" /\ ~cursorPath.node.found /\ ~cursorPath.path.has

\* What a lint pass hands back, apart from how many times it parsed.
LintResult(out) == [kind |-> out.kind, diags |-> out.diags, calls |-> out.calls]

\* C12: a lint pass that finds a cache entry for the current text returns
\* what a lint pass without the cache (a fresh parse of the same text) would
\* return, for every text and every behaviour of the callback.
C12_CachedEqualsFresh ==
  (step = "lint" /\ installed /\ cache.present)
    => LintResult(lintOut) = LintResult(json5ParseLinter(doc, NoCache, linter))

\* C14: a transaction that leaves the text alone, or changes it to a text
\* that does not parse, leaves the retained value of the cache as it was
\* (undefined when the cache held none); hence over any run of such
\* transactions the value stays the one held before the run.
C14_FailuresKeepValue ==
  [][(installed /\ (step' = "select" \/ (step' = "edit" /\ ~JSON5Parse(doc').ok)))
       => cache'.obj = cache.obj]_vars

\* C14 witness: the text "1" has gone, by way of two failing edits and then
\* a selection change, to the text "[", and the cache still holds 1.
C14_Witness ==
  /\ installed /\ step = "select" /\ doc = <<"[">>
  /\ cache.err.is /\ cache.obj = Defined(NumV(1))

\* A path segment is a property name or an array index.
IsSegment(seg) == seg \in {KeySeg(seg.name), IndexSeg(seg.index)}

\* C16: in every state of jsonCursorPath a null node comes with a null
\* path, so a path is present only next to a node; the path is null or a
\* list of segments, never anything else.
C16_PathNeedsNode ==
  /\ ~cursorPath.node.found => cursorPath.path = NoPath
  /\ cursorPath.path.has => cursorPath.node.found
  /\ ~cursorPath.path.has => cursorPath.path.segs = <<>>
  /\ \A i \in 1..Len(cursorPath.path.segs) : IsSegment(cursorPath.path.segs[i])

\* C16 witness: a transaction on a text that parses has put the cursor where
\* no node is, and the field holds neither node nor path.
C16_Witness ==
  /\ IsTransaction /\ Parsed.ok
  /\ ~cursorPath.node.found /\ ~cursorPath.path.has

\* C15: the cache is null exactly as long as no transaction has changed the
\* text; from then on its error is null exactly when the current text
\* parses, its value is then the value of the current text, and an error it
\* holds is the one JSON5.parse gives for the current text.
C15_CacheCoherent ==
  installed =>
    /\ cache.present <=> edited
    /\ cache.present =>
         /\ ~cache.err.is <=> Parsed.ok
         /\ Parsed.ok => cache.obj = Defined(Parsed.value)
         /\ cache.err.is => cache.err = Parsed.err

\* C15 witness: after a failing edit and then an edit that parses, followed
\* by a selection change, the cache holds the value of the text and no
\* error.
C15_Witness ==
  /\ installed /\ edited /\ step = "select" /\ doc = <<"[", "]">>
  /\ cache = CacheOf(NoErr, Defined(ArrV(<<>>)))

\* C13: a lint pass whose structural linter returns a promise returns that
\* promise, unresolved, for the value of the text it was invoked on; no
\* step, be it a transaction, a lint pass or a promise resolving, removes an
\* earlier promise or changes the value it was made for or the list it
\* resolves to, and a resolved promise stays resolved; a lint pass leaves
\* the parse cache and the cursor path as they were.
C13_LintPassesIndependent ==
  [][/\ Len(inflight') >= Len(inflight)
     /\ \A i \in 1..Len(inflight) :
          /\ inflight'[i].calls = inflight[i].calls
          /\ inflight'[i].diags = inflight[i].diags
          /\ inflight[i].settled => inflight'[i].settled
     /\ step' = "lint" =>
          /\ cache' = cache /\ cursorPath' = cursorPath
          /\ (linter'.kind = "pending" /\ Parsed.ok) =>
               /\ lintOut' = Outcome("pending", linter'.result, <<Parsed.value>>,
                                     IF cache.present THEN 0 ELSE 1)
               /\ inflight' = Append(inflight,
                                     [calls |-> <<Parsed.value>>,
                                      diags |-> linter'.result,
                                      settled |-> FALSE])]_vars

\* C13 witness: two promises made for different values by different
\* structural linters; the text has since been replaced by one that does not
\* parse, the later promise has resolved and the earlier one has not.
C13_Witness ==
  /\ Len(inflight) >= 2 /\ ~Parsed.ok
  /\ inflight[1].calls # inflight[2].calls
  /\ inflight[1].diags # inflight[2].diags
  /\ ~inflight[1].settled /\ inflight[2].settled

====
